---- MODULE Spec2Model ----
(***************************************************************************)
(* Model of the Tensor autograd node of src/tensor.h.                      *)
(*                                                                         *)
(* Tensors are numbered 1, 2, ... in order of allocation.  An xarray of    *)
(* doubles is a non-empty sequence of integers (one-dimensional, of one    *)
(* or two elements, so that every pair of shapes broadcasts); the integers *)
(* are small, so that double arithmetic on them is exact.  A shared_ptr    *)
(* held by a client variable is membership in `held`; the shared_ptr       *)
(* copies stored in a _backward closure are the fields of _backward[n]; a  *)
(* Tensor whose destructor has run is no longer in `alive`.                *)
(***************************************************************************)
EXTENDS Integers, Sequences, FiniteSets, TLC

\* ------------------------------------------------------------------ bounds
MaxNodes == 4      \* Tensors allocated in one run
MaxCalls == 2      \* calls of backward() in one run

LeafVals == {<<2>>, <<3>>, <<1, 2>>}   \* arguments of Tensor::create
Scalars  == {1}                        \* arguments of operator+(double)

VARIABLES
    data,        \* data[n]      : Tensor::data
    grad,        \* grad[n]      : Tensor::grad
    _backward,   \* _backward[n] : the closure and what it captured
    _prev,       \* _prev[n]     : sequence of weak_ptr (node numbers)
    _op,         \* _op[n]       : "", "+" or "*"
    held,        \* nodes some client variable still points to
    alive,       \* nodes whose destructor has not run
    pc,          \* "idle", or "walk" inside the reverse loop of backward()
    root,        \* `this` of the current / last backward(), 0 before any
    topo,        \* local `topo` of the current / last backward()
    idx,         \* position of the reverse iterator in topo (0 = rend)
    fired,       \* nodes whose _backward ran in this call, in order
    gradStart,   \* grad as it was when the current / last backward() began
    calls,       \* number of backward() calls begun
    prevRoot,    \* root of the call before the current / last one, 0 if none
    prevFromZero,\* whether that call began with zero gradients below its root
    lastOp       \* the operation that produced the current state

vars == <<data, grad, _backward, _prev, _op, held, alive, pc, root, topo, idx,
          fired, gradStart, calls, prevRoot, prevFromZero, lastOp>>

graphVars == <<data, _backward, _prev, _op>>
walkVars  == <<root, topo, idx, fired, gradStart, calls, prevRoot, prevFromZero>>

Nodes == 1..Len(data)

\* -------------------------------------------------------- xarray<double>
Max(a, b) == IF a >= b THEN a ELSE b

\* xt::zeros<double>(shape), xt::ones<double>(shape)
Zeros(len) == [i \in 1..len |-> 0]
Ones(len)  == [i \in 1..len |-> 1]

\* shapes broadcast when they are equal or one of them is one element
Broadcastable(a, b) == Len(a) = Len(b) \/ Len(a) = 1 \/ Len(b) = 1

\* element i of a, a one-element array being stretched
At(a, i) == IF Len(a) = 1 THEN a[1] ELSE a[i]

\* a + b and a * b of xtensor: elementwise over the broadcast shape
ArrAdd(a, b) == [i \in 1..Max(Len(a), Len(b)) |-> At(a, i) + At(b, i)]
ArrMul(a, b) == [i \in 1..Max(Len(a), Len(b)) |-> At(a, i) * At(b, i)]

\* lhs += rhs on an xarray: computed assignment of lhs + rhs, the container
\* being resized to the broadcast shape when rhs is larger
PlusAssign(lhs, rhs) == ArrAdd(lhs, rhs)

\* ------------------------------------------------------------- closures
NoOp == [kind |-> "noop"]
Closure(kind, out, self, other) ==
    [kind |-> kind, out |-> out, self |-> self, other |-> other]

\* the shared_ptr copies a closure owns
Captured(c) == IF c.kind = "noop" THEN {} ELSE {c.out, c.self, c.other}

\* Reference counting: a Tensor is destroyed when no client variable and no
\* closure of a live Tensor holds a shared_ptr to it; destroying it destroys
\* its closure and releases what that captured.
RECURSIVE Collect(_, _, _)
Collect(bw, al, h) ==
    LET dead == {n \in al : n \notin h /\ \A m \in al : n \notin Captured(bw[m])}
    IN  IF dead = {} THEN al ELSE Collect(bw, al \ dead, h)

Init ==
    /\ data = <<>> /\ grad = <<>> /\ _backward = <<>> /\ _prev = <<>> /\ _op = <<>>
    /\ held = {} /\ alive = {}
    /\ pc = "idle" /\ root = 0 /\ topo = <<>> /\ idx = 0 /\ fired = <<>>
    /\ gradStart = <<>> /\ calls = 0 /\ prevRoot = 0 /\ prevFromZero = FALSE
    /\ lastOp = "init"

\* Tensor::create(v): make_shared<Tensor>(v)
create(v) ==
    /\ pc = "idle"
    /\ Len(data) + 1 <= MaxNodes
    /\ data' = Append(data, v)
    /\ grad' = Append(grad, Zeros(Len(v)))
    /\ _backward' = Append(_backward, NoOp)
    /\ _prev' = Append(_prev, <<>>)
    /\ _op' = Append(_op, "")
    /\ held' = held \cup {Len(data) + 1}
    /\ alive' = alive \cup {Len(data) + 1}
    /\ lastOp' = "create"
    /\ UNCHANGED <<pc, walkVars>>

\* operator+(other) on *a: out = a + b
OpAdd(a, b) ==
    LET out == Len(data) + 1 IN
    /\ pc = "idle"
    /\ a \in held /\ b \in held
    /\ out <= MaxNodes
    /\ Broadcastable(data[a], data[b])
    /\ data' = Append(data, ArrAdd(data[a], data[b]))
    /\ grad' = Append(grad, Zeros(Len(ArrAdd(data[a], data[b]))))
    /\ _prev' = Append(_prev, <<a, b>>)
    /\ _op' = Append(_op, "+")
    /\ _backward' = Append(_backward, Closure("add", out, a, b))
    /\ held' = held \cup {out}
    /\ alive' = alive \cup {out}
    /\ lastOp' = "add"
    /\ UNCHANGED <<pc, walkVars>>

\* variant: the product is also stored into the left operand
OpMul_InPlace(a, b) ==
    LET out == Len(data) + 1 IN
    /\ pc = "idle"
    /\ a \in held /\ b \in held
    /\ out <= MaxNodes
    /\ Broadcastable(data[a], data[b])
    /\ data' = Append([data EXCEPT ![a] = ArrMul(data[a], data[b])],
                      ArrMul(data[a], data[b]))
    /\ grad' = Append(grad, Zeros(Len(ArrMul(data[a], data[b]))))
    /\ _prev' = Append(_prev, <<a, b>>)
    /\ _op' = Append(_op, "*")
    /\ _backward' = Append(_backward, Closure("mul", out, a, b))
    /\ held' = held \cup {out}
    /\ alive' = alive \cup {out}
    /\ lastOp' = "mul"
    /\ UNCHANGED <<pc, walkVars>>

\* operator*(other) on *a: out = a * b
OpMul(a, b) ==
    LET out == Len(data) + 1 IN
    /\ pc = "idle"
    /\ a \in held /\ b \in held
    /\ out <= MaxNodes
    /\ Broadcastable(data[a], data[b])
    /\ data' = Append(data, ArrMul(data[a], data[b]))
    /\ grad' = Append(grad, Zeros(Len(ArrMul(data[a], data[b]))))
    /\ _prev' = Append(_prev, <<a, b>>)
    /\ _op' = Append(_op, "*")
    /\ _backward' = Append(_backward, Closure("mul", out, a, b))
    /\ held' = held \cup {out}
    /\ alive' = alive \cup {out}
    /\ lastOp' = "mul"
    /\ UNCHANGED <<pc, walkVars>>

\* operator-() on *a: minus_one = create({-1.0}); return a * minus_one.
\* The local minus_one goes out of scope on return.
OpNeg(a) ==
    LET m   == Len(data) + 1
        out == Len(data) + 2
        bw  == Append(Append(_backward, NoOp), Closure("mul", out, a, m))
    IN
    /\ pc = "idle"
    /\ a \in held
    /\ out <= MaxNodes
    /\ data' = Append(Append(data, <<-1>>), ArrMul(data[a], <<-1>>))
    /\ grad' = Append(Append(grad, Zeros(1)), Zeros(Len(ArrMul(data[a], <<-1>>))))
    /\ _prev' = Append(Append(_prev, <<>>), <<a, m>>)
    /\ _op' = Append(Append(_op, ""), "*")
    /\ _backward' = bw
    /\ held' = held \cup {out}
    /\ alive' = Collect(bw, alive \cup {m, out}, held \cup {out})
    /\ lastOp' = "neg"
    /\ UNCHANGED <<pc, walkVars>>

\* operator+(double) on *a: scalarTensor = create({scalar}); return a + scalarTensor.
\* The local scalarTensor goes out of scope on return.
OpAddScalar(a, scalar) ==
    LET m   == Len(data) + 1
        out == Len(data) + 2
        bw  == Append(Append(_backward, NoOp), Closure("add", out, a, m))
    IN
    /\ pc = "idle"
    /\ a \in held
    /\ out <= MaxNodes
    /\ data' = Append(Append(data, <<scalar>>), ArrAdd(data[a], <<scalar>>))
    /\ grad' = Append(Append(grad, Zeros(1)), Zeros(Len(ArrAdd(data[a], <<scalar>>))))
    /\ _prev' = Append(Append(_prev, <<>>), <<a, m>>)
    /\ _op' = Append(Append(_op, ""), "+")
    /\ _backward' = bw
    /\ held' = held \cup {out}
    /\ alive' = Collect(bw, alive \cup {m, out}, held \cup {out})
    /\ lastOp' = "sadd"
    /\ UNCHANGED <<pc, walkVars>>

\* the client's last variable pointing to n goes out of scope or is reset
Drop(n) ==
    /\ pc = "idle"
    /\ n \in held
    /\ held' = held \ {n}
    /\ alive' = Collect(_backward, alive, held \ {n})
    /\ lastOp' = "drop"
    /\ UNCHANGED <<data, grad, graphVars, pc, walkVars>>

\* ----------------------------------------------------------- backward()
\* variant: no visited check
NotVisited_Always(v, st) == TRUE

\* !visited.count(v.get())
NotVisited(v, st) == v \notin st.visited

\* child_wptr.lock() yields a non-null pointer
Locks(child) == child \in alive

\* the lambda build_topo, on the pair st = [topo, visited] it updates
RECURSIVE build_topo(_, _)
RECURSIVE build_children(_, _, _)

\* variant: v is pushed before its children are visited
build_topo_preorder(v, st) ==
    IF NotVisited(v, st)
    THEN build_children(v, 1, [topo |-> Append(st.topo, v),
                               visited |-> st.visited \cup {v}])
    ELSE st

build_topo(v, st) ==
    IF NotVisited(v, st)
    THEN LET st1 == [st EXCEPT !.visited = @ \cup {v}]
             st2 == build_children(v, 1, st1)
         IN  [st2 EXCEPT !.topo = Append(@, v)]
    ELSE st

\* the loop over v->_prev, from its i-th element on
build_children(v, i, st) ==
    IF i > Len(_prev[v]) THEN st
    ELSE build_children(v, i + 1,
             IF Locks(_prev[v][i]) THEN build_topo(_prev[v][i], st) ELSE st)

\* variant: this->grad += ones
Seed_Accumulate(g, r) == [g EXCEPT ![r] = PlusAssign(g[r], Ones(Len(data[r])))]

\* this->grad = xt::ones<double>(this->data.shape())
Seed(g, r) == [g EXCEPT ![r] = Ones(Len(data[r]))]

\* variant: other->grad is left alone
AddRule_OnlySelf(g, out, self, other) ==
    [g EXCEPT ![self] = PlusAssign(g[self], g[out])]

\* variant: = in place of +=
AddRule_Overwrite(g, out, self, other) ==
    LET g1 == [g EXCEPT ![self] = g[out]]
    IN  [g1 EXCEPT ![other] = g1[out]]

\* the closure of operator+: self->grad += out->grad; other->grad += out->grad
AddRule(g, out, self, other) ==
    LET g1 == [g EXCEPT ![self] = PlusAssign(g[self], g[out])]
    IN  [g1 EXCEPT ![other] = PlusAssign(g1[other], g1[out])]

\* variant: each operand is scaled by its own data
MulRule_Swapped(g, out, self, other) ==
    LET g1 == [g EXCEPT ![self] = PlusAssign(g[self], ArrMul(g[out], data[self]))]
    IN  [g1 EXCEPT ![other] = PlusAssign(g1[other], ArrMul(g1[out], data[other]))]

\* variant: both new gradients are computed from the old ones, then stored
MulRule_Simultaneous(g, out, self, other) ==
    LET gs == PlusAssign(g[self], ArrMul(g[out], data[other]))
        go == PlusAssign(g[other], ArrMul(g[out], data[self]))
    IN  [[g EXCEPT ![self] = gs] EXCEPT ![other] = go]

\* the closure of operator*: self->grad += out->grad * other->data;
\*                           other->grad += out->grad * self->data
MulRule(g, out, self, other) ==
    LET g1 == [g EXCEPT ![self] = PlusAssign(g[self], ArrMul(g[out], data[other]))]
    IN  [g1 EXCEPT ![other] = PlusAssign(g1[other], ArrMul(g1[out], data[self]))]

\* (*it)->_backward()
RunBackward(g, v) ==
    LET c == _backward[v] IN
    CASE c.kind = "noop" -> g
      [] c.kind = "add"  -> AddRule(g, c.out, c.self, c.other)
      [] c.kind = "mul"  -> MulRule(g, c.out, c.self, c.other)

\* the nodes build_topo can reach from r through pointers that still lock
RECURSIVE Reach(_)
Reach(r) == {r} \cup UNION {Reach(_prev[r][i]) : i \in {j \in 1..Len(_prev[r]) : _prev[r][j] \in alive}}

\* whether the current / last call began with zero gradients below its root
FromZero == root # 0 /\ \A n \in Reach(root) : gradStart[n] = Zeros(Len(data[n]))

\* backward() on *r up to the reverse loop: build topo, seed the gradient
BackwardStart(r) ==
    /\ pc = "idle"
    /\ r \in held
    /\ calls < MaxCalls
    /\ topo' = build_topo(r, [topo |-> <<>>, visited |-> {}]).topo
    /\ grad' = Seed(grad, r)
    /\ idx' = Len(topo')
    /\ fired' = <<>>
    /\ gradStart' = grad
    /\ root' = r
    /\ calls' = calls + 1
    /\ prevRoot' = root
    /\ prevFromZero' = FromZero
    /\ pc' = "walk"
    /\ lastOp' = "backward"
    /\ UNCHANGED <<data, graphVars, held, alive>>

\* one iteration of the reverse loop: topo[idx] is *it
BackwardStep ==
    /\ pc = "walk"
    /\ idx >= 1
    /\ grad' = RunBackward(grad, topo[idx])
    /\ fired' = Append(fired, topo[idx])
    /\ idx' = idx - 1
    /\ pc' = IF idx = 1 THEN "idle" ELSE "walk"
    /\ lastOp' = "step"
    /\ UNCHANGED <<data, graphVars, held, alive, root, topo, gradStart, calls,
                   prevRoot, prevFromZero>>

Next ==
    \/ \E v \in LeafVals : create(v)
    \/ \E a, b \in Nodes : OpAdd(a, b)
    \/ \E a, b \in Nodes : OpMul(a, b)
    \/ \E a \in Nodes : OpNeg(a)
    \/ \E a \in Nodes, s \in Scalars : OpAddScalar(a, s)
    \/ \E n \in Nodes : Drop(n)
    \/ \E r \in Nodes : BackwardStart(r)
    \/ BackwardStep

Spec == Init /\ [][Next]_vars

\* the same program when the client keeps every variable it was given
NextGrad ==
    \/ \E v \in LeafVals : create(v)
    \/ \E a, b \in Nodes : OpAdd(a, b)
    \/ \E a, b \in Nodes : OpMul(a, b)
    \/ \E a \in Nodes : OpNeg(a)
    \/ \E a \in Nodes, s \in Scalars : OpAddScalar(a, s)
    \/ \E r \in Nodes : BackwardStart(r)
    \/ BackwardStep

SpecGrad == Init /\ [][NextGrad]_vars

\* ============================================================== properties
\* a backward() call has run to completion and nothing was called since
Done == pc = "idle" /\ root # 0

\* the operand slots <<m, i>> below root r that hold node n
Slots(r, n) ==
    {s \in Reach(r) \X {1, 2} : s[2] <= Len(_prev[s[1]]) /\ _prev[s[1]][s[2]] = n}

\* local derivative of m with respect to its i-th operand
Local(m, i) == IF _op[m] = "+" THEN <<1>> ELSE data[_prev[m][3 - i]]

\* d r / d n as the sum over the dependency paths from r to n of the products
\* of the local derivatives along the path
RECURSIVE Deriv(_, _)
RECURSIVE PathSum(_, _, _)
Deriv(r, n) == IF n = r THEN Ones(Len(data[r])) ELSE PathSum(r, n, Slots(r, n))

PathSum(r, n, S) ==
    IF S = {} THEN Zeros(Len(data[n]))
    ELSE LET s == CHOOSE s \in S : TRUE
         IN  ArrAdd(PathSum(r, n, S \ {s}), ArrMul(Deriv(r, s[1]), Local(s[1], s[2])))

\* number of occurrences of n in a sequence
Count(seq, n) == Cardinality({i \in DOMAIN seq : seq[i] = n})

\* x = [2.0], y = [3.0], z = x + y, w = z * x
MainGraph(x, y, z, w) ==
    /\ _op[x] = "" /\ data[x] = <<2>>
    /\ _op[y] = "" /\ data[y] = <<3>>
    /\ _op[z] = "+" /\ _prev[z] = <<x, y>>
    /\ _op[w] = "*" /\ _prev[w] = <<z, x>>

\* C1: in the reference scenario x = [2], y = [3], z = x + y, w = z * x, one
\* backward(w) from zero gradients ends with w.grad = [1], z.grad = [2],
\* x.grad = [7], y.grad = [2], and z.data = [5], w.data = [10].
C1_MainGradients ==
    \A x, y, z, w \in Nodes :
        MainGraph(x, y, z, w) =>
            /\ data[z] = <<5>> /\ data[w] = <<10>>
            /\ (Done /\ root = w /\ FromZero) =>
                   /\ grad[w] = <<1>> /\ grad[z] = <<2>>
                   /\ grad[x] = <<7>> /\ grad[y] = <<2>>

C1_Witness ==
    \E x, y, z, w \in Nodes :
        /\ MainGraph(x, y, z, w) /\ Done /\ root = w /\ FromZero
        /\ grad[x] = <<7>> /\ data[w] = <<10>>

\* C2: after backward(root) from zero gradients, the gradient of every node
\* reachable from root is the sum over all dependency paths from root to it
\* of the product of the local derivatives on the path, and root has ones.
C2_GradIsPathSum ==
    (Done /\ FromZero) => \A n \in Reach(root) : grad[n] = Deriv(root, n)

C2_Witness ==
    /\ Done /\ FromZero
    /\ \E n \in Reach(root) :
          /\ \E s, t \in Slots(root, n) : s[1] # t[1]
          /\ \E s \in Slots(root, n) : s[1] # root
          /\ grad[n] = Deriv(root, n)
          /\ grad[n] # Zeros(Len(grad[n]))

\* C5: for a leaf x and p = x * x, backward(p) from zero gradients gives
\* x.grad = 2 * x.data.
C5_SquareGradient ==
    \A p, x \in Nodes :
        (/\ _op[p] = "*" /\ _prev[p] = <<x, x>> /\ _op[x] = ""
         /\ Done /\ root = p /\ FromZero)
        => grad[x] = ArrMul(<<2>>, data[x])

C5_Witness ==
    \E p, x \in Nodes :
        /\ _op[p] = "*" /\ _prev[p] = <<x, x>> /\ _op[x] = ""
        /\ Done /\ root = p /\ FromZero
        /\ data[x] = <<3>> /\ grad[x] = <<6>>

\* C6: in one backward(root), every node reachable from root, also one with
\* several paths to it or listed twice in one _prev, is exactly once in topo
\* and has its _backward invoked exactly once.
C6_VisitedOnce ==
    /\ root # 0 =>
          /\ \A n \in Reach(root) : Count(topo, n) = 1
          /\ \A i \in DOMAIN topo : topo[i] \in Reach(root)
    /\ Done =>
          /\ \A n \in Reach(root) : Count(fired, n) = 1
          /\ \A i \in DOMAIN fired : fired[i] \in Reach(root)

C6_Witness ==
    /\ Done
    /\ \E n \in Reach(root) :
          /\ Cardinality(Slots(root, n)) >= 2
          /\ Count(topo, n) = 1 /\ Count(fired, n) = 1
    /\ \E m \in Reach(root) : _prev[m] # <<>> /\ _prev[m][1] = _prev[m][2]

\* n is an operand of nothing below root but root itself
OnlyBelowRoot(n) == Slots(root, n) # {} /\ \A s \in Slots(root, n) : s[1] = root

\* the current / last two calls were backward() on the same root, the first
\* of them from zero gradients
TwiceInARow == Done /\ prevRoot = root /\ prevFromZero

\* C3 (as stated): backward(root) twice in a row leaves every node reachable
\* from root, the root included, with twice its gradient after the first call.
C3_AllDoubled ==
    TwiceInARow => \A n \in Reach(root) : grad[n] = ArrMul(<<2>>, gradStart[n])

\* C3 (amended): backward(root) twice in a row leaves root.grad at ones, as
\* after the first call, and doubles the gradient of every node that is an
\* operand of root only.
C3_DirectOperandsDoubled ==
    TwiceInARow =>
        /\ grad[root] = gradStart[root]
        /\ grad[root] = Ones(Len(data[root]))
        /\ \A n \in Reach(root) :
              OnlyBelowRoot(n) => grad[n] = ArrMul(<<2>>, gradStart[n])

C3_Witness ==
    /\ TwiceInARow
    /\ \E n \in Reach(root) :
          /\ OnlyBelowRoot(n)
          /\ gradStart[n] # Zeros(Len(gradStart[n]))
          /\ grad[n] = ArrMul(<<2>>, gradStart[n])

\* what the rules of the nodes below root pushed into n during the last
\* call, added to base: each node's rule ran on its final gradient
RECURSIVE Pushed(_, _, _)
Pushed(base, n, S) ==
    IF S = {} THEN base
    ELSE LET s == CHOOSE s \in S : TRUE
         IN  ArrAdd(Pushed(base, n, S \ {s}), ArrMul(grad[s[1]], Local(s[1], s[2])))

\* C4 (as stated): after backward(root) every node reachable from root, the
\* root included, has its gradient from before the call plus what this call
\* added (for the root: the seed of ones).
C4_NothingOverwritten ==
    Done =>
        /\ grad[root] = ArrAdd(gradStart[root], Ones(Len(data[root])))
        /\ \A n \in Reach(root) \ {root} :
              grad[n] = Pushed(gradStart[n], n, Slots(root, n))

\* C4 (amended): after backward(root) every node reachable from root other
\* than root has its gradient from before the call plus what this call
\* added; root.grad is ones, whatever it was before.
C4_OnlyRootOverwritten ==
    Done =>
        /\ grad[root] = Ones(Len(data[root]))
        /\ \A n \in Reach(root) \ {root} :
              grad[n] = Pushed(gradStart[n], n, Slots(root, n))

C4_Witness ==
    /\ Done
    /\ gradStart[root] # Zeros(Len(gradStart[root]))
    /\ gradStart[root] # Ones(Len(gradStart[root]))
    /\ \E n \in Reach(root) \ {root} :
          /\ gradStart[n] # Zeros(Len(gradStart[n]))
          /\ grad[n] = Pushed(gradStart[n], n, Slots(root, n))
          /\ grad[n] # gradStart[n]

\* position of n in topo (0 when absent)
Pos(n) == IF \E i \in DOMAIN topo : topo[i] = n
          THEN CHOOSE i \in DOMAIN topo : topo[i] = n ELSE 0

\* the live dependencies of m
LiveDeps(m) == {_prev[m][i] : i \in {j \in DOMAIN _prev[m] : _prev[m][j] \in alive}}

\* C8: topo places every node after all of its live dependencies, and in the
\* reverse walk a node's _backward runs only after the _backward of every
\* reachable node that depends on it, so that its gradient is final by then.
C8_DependentsFirst ==
    root # 0 =>
        /\ \A m \in Reach(root) : \A d \in LiveDeps(m) :
              Pos(d) >= 1 /\ Pos(d) < Pos(m)
        /\ \A j \in DOMAIN fired : \A m \in Reach(root) :
              fired[j] \in LiveDeps(m) => \E k \in 1..(j - 1) : fired[k] = m
        /\ pc = "walk" =>
              /\ \A m \in Reach(root) :
                    topo[idx] \in LiveDeps(m) => \E k \in DOMAIN fired : fired[k] = m
              /\ topo[idx] # root =>
                    grad[topo[idx]] =
                        Pushed(gradStart[topo[idx]], topo[idx], Slots(root, topo[idx]))

C8_Witness ==
    /\ pc = "walk" /\ idx >= 1 /\ Len(fired) >= 2
    /\ Cardinality({s[1] : s \in Slots(root, topo[idx])}) >= 2
    /\ grad[topo[idx]] # gradStart[topo[idx]]
    /\ _prev[topo[idx]] # <<>>

\* C7 (as stated): only client variables keep a node alive (no node owns a
\* shared_ptr to itself or to a dependency), so a node that no client
\* variable points to any more has been destroyed.
C7_ClientOwnsLifetime == \A n \in Nodes : n \notin held => n \notin alive

\* C9 (as stated): in every reachable state grad has the shape of data.
C9_GradShape == \A n \in Nodes : Len(grad[n]) = Len(data[n])

\* no field of an existing node changes in the step
OldNodesUnchanged ==
    \A n \in Nodes :
        /\ data'[n] = data[n] /\ grad'[n] = grad[n] /\ _backward'[n] = _backward[n]
        /\ _prev'[n] = _prev[n] /\ _op'[n] = _op[n]

\* C10 (as stated): add, multiply, negate and scalar-add each allocate
\* exactly one node and leave every field of every existing node unchanged.
C10_OneNewNode ==
    [][lastOp' \in {"add", "mul", "neg", "sadd"} =>
          Len(data') = Len(data) + 1 /\ OldNodesUnchanged]_vars

\* C10 (amended): add and multiply allocate exactly one node, negate and
\* scalar-add exactly two (the one-element leaf and the result), and all of
\* them leave every field of every existing node unchanged.
C10_NewNodesOnly ==
    [][/\ lastOp' \in {"add", "mul"} =>
              Len(data') = Len(data) + 1 /\ OldNodesUnchanged
       /\ lastOp' \in {"neg", "sadd"} =>
              Len(data') = Len(data) + 2 /\ OldNodesUnchanged]_vars

C10_Witness ==
    /\ lastOp \in {"neg", "sadd"}
    /\ Len(data) >= 4
    /\ \E n \in Nodes : n <= Len(data) - 2 /\ grad[n] # Zeros(Len(grad[n]))
====
